---- MODULE Spec2Model ----
(***************************************************************************)
(* Key-health evaluation of fluidkeys (src/status/status.go).              *)
(*                                                                         *)
(* Instants are whole seconds counted from 2023-01-01 00:00:00 UTC         *)
(* (OpenPGP creation times and lifetimes are whole seconds; the            *)
(* nanoseconds of time.Now() are left out).  A time.Time is an instant;    *)
(* the Location of the times time.Now() returns is `loc`, the offset in    *)
(* seconds of the local zone, held fixed during a run (no change of        *)
(* daylight saving time between the clock and the first of its month).     *)
(* Times built with .In(time.UTC) have offset 0.                           *)
(* A function that can panic returns a record with a `panicked` field.     *)
(* `call` records the last function called, the clock it read, its         *)
(* argument and its result.                                                *)
(***************************************************************************)
EXTENDS Integers, Sequences, FiniteSets

VARIABLES key, clock, loc, ticks, call

vars == <<key, clock, loc, ticks, call>>

----------------------------------------------------------------------------
(* Durations, in seconds *)

SecondsPerDay == 86400

tenDays == 864000

thirtyDays == 2592000

fortyFiveDays == 3888000

----------------------------------------------------------------------------
(* The proleptic Gregorian calendar behind time.Time.Date and time.Date *)

\* days from 1970-01-01 to day d of month mp (counted from March) of year yy
DaysFromEra(yy, mp, d) ==
    LET era == yy \div 400
        yoe == yy % 400
        doy == (153 * mp + 2) \div 5 + d - 1
    IN  era * 146097 + yoe * 365 + yoe \div 4 - yoe \div 100 + doy - 719468

\* days from 1970-01-01 to the civil date y-m-d
DaysFromCivil(y, m, d) ==
    DaysFromEra(IF m <= 2 THEN y - 1 ELSE y, IF m > 2 THEN m - 3 ELSE m + 9, d)

CivilOfMonth(y, doy, mp) ==
    LET m == IF mp < 10 THEN mp + 3 ELSE mp - 9
    IN  [year |-> y + (IF m <= 2 THEN 1 ELSE 0), month |-> m,
         day |-> doy - (153 * mp + 2) \div 5 + 1]

CivilOfDay(y, doy) == CivilOfMonth(y, doy, (5 * doy + 2) \div 153)

CivilOfYear(era, doe, yoe) ==
    CivilOfDay(yoe + era * 400, doe - (365 * yoe + yoe \div 4 - yoe \div 100))

CivilOfEra(era, doe) ==
    CivilOfYear(era, doe,
                (doe - doe \div 1460 + doe \div 36524 - doe \div 146096) \div 365)

\* the civil date of the day z days after 1970-01-01
CivilFromDays(z) == CivilOfEra((z + 719468) \div 146097, (z + 719468) % 146097)

EpochDays == DaysFromCivil(2023, 1, 1)

\* t.Date() for a time.Time at instant t whose Location has offset l
Date(t, l) == CivilFromDays(EpochDays + ((t + l) \div SecondsPerDay))

\* time.Date(y, m, d, 0, 0, 0, 0, location with offset l)
DateAt(y, m, d, l) == (DaysFromCivil(y, m, d) - EpochDays) * SecondsPerDay - l

----------------------------------------------------------------------------
(* Rotation policy *)

calculateNextRotationTime(expiry) == expiry - thirtyDays

\* beginningOfMonth(now) for now at instant t in the zone with offset l;
\* the result is in UTC
FirstOf(ymd, l) == DateAt(ymd.year, ymd.month, 1, l)

beginningOfMonth(t, l) == FirstOf(Date(t, l), l)

\* firstOfThisMonth is in UTC, whatever the zone of today
firstOfNextMonth(today, l) ==
    beginningOfMonth(beginningOfMonth(today, l) + fortyFiveDays, 0)

\* a variant that counts the thirty days from now itself
nextExpiryTimeFromNow(now, l) == now + thirtyDays

nextExpiryTime(now, l) == firstOfNextMonth(now, l) + thirtyDays

\* a variant that also flags an expiry exactly at the ceiling
isExpiryTooLongInclusive(expiry, now, l) == expiry >= nextExpiryTime(now, l)

isExpiryTooLong(expiry, now, l) ==
    LET latestAcceptableExpiry == nextExpiryTime(now, l)
    IN  expiry > latestAcceptableExpiry

\* a variant that counts an expiry at this very instant as passed
isExpiredInclusive(expiry, now) == expiry <= now

isExpired(expiry, now) == expiry < now

isOverdueForRotation(nextRotation, now) ==
    LET overdueTime == nextRotation + tenDays
    IN  overdueTime < now

isDueForRotation(nextRotation, now) == nextRotation < now

\* int(duration.Seconds() / 86400): the conversion truncates toward zero
inDays(duration) ==
    IF duration >= 0
    THEN duration \div SecondsPerDay
    ELSE -((-duration) \div SecondsPerDay)

\* uint(days), or the panic on a negative count
dayCount(days) ==
    IF days < 0
    THEN [panicked |-> TRUE, days |-> 0]
    ELSE [panicked |-> FALSE, days |-> days]

getDaysUntilExpiry(expiry, now) == dayCount(inDays(expiry - now))

getDaysSinceExpiry(expiry, now) == dayCount(inDays(now - expiry))

----------------------------------------------------------------------------
(* Expiries.  A *uint32 lifetime is <<>> (nil) or <<n>>; a (bool, *time.Time) *)
(* result is [hasExpiry, expiry], expiry meaningful when hasExpiry.           *)

NoExpiry == [hasExpiry |-> FALSE, expiry |-> 0]

calculateExpiry(creationTime, lifetimeSecs) ==
    IF lifetimeSecs = <<>>
    THEN NoExpiry
    ELSE IF lifetimeSecs[1] = 0
         THEN NoExpiry
         ELSE [hasExpiry |-> TRUE, expiry |-> creationTime + lifetimeSecs[1]]

getSubkeyExpiry(subkey) ==
    calculateExpiry(subkey.CreationTime, subkey.KeyLifetimeSecs)

RECURSIVE latestFrom(_, _, _, _)
\* a variant with the comparison turned round
latestFrom(times, i, set, latestSoFar) ==
    IF i > Len(times)
    THEN latestSoFar
    ELSE IF ~set \/ times[i] > latestSoFar
         THEN latestFrom(times, i + 1, TRUE, times[i])
         ELSE latestFrom(times, i + 1, set, latestSoFar)

RECURSIVE earliestFrom(_, _, _, _)
\* the loop of earliest: times[i..] folded into (set, earliestSoFar)
earliestFrom(times, i, set, earliestSoFar) ==
    IF i > Len(times)
    THEN earliestSoFar
    ELSE IF ~set \/ times[i] < earliestSoFar
         THEN earliestFrom(times, i + 1, TRUE, times[i])
         ELSE earliestFrom(times, i + 1, set, earliestSoFar)

earliest(times) ==
    IF Len(times) = 0
    THEN [panicked |-> TRUE, time |-> 0]
    ELSE [panicked |-> FALSE, time |-> earliestFrom(times, 1, FALSE, 0)]

\* a variant that gives up every expiry once one identity has none
uidExpiryTimesAllOrNone(k, i) ==
    IF \E j \in i..Len(k.Identities) :
          ~calculateExpiry(k.CreationTime, k.Identities[j].KeyLifetimeSecs).hasExpiry
    THEN <<>>
    ELSE [j \in 1..(Len(k.Identities) - i + 1) |->
            calculateExpiry(k.CreationTime,
                            k.Identities[i + j - 1].KeyLifetimeSecs).expiry]

RECURSIVE uidExpiryTimes(_, _)
\* the loop of getEarliestUidExpiry: the expiries of Identities[i..]
uidExpiryTimes(k, i) ==
    IF i > Len(k.Identities)
    THEN <<>>
    ELSE LET e == calculateExpiry(k.CreationTime, k.Identities[i].KeyLifetimeSecs)
         IN  IF e.hasExpiry
             THEN <<e.expiry>> \o uidExpiryTimes(k, i + 1)
             ELSE uidExpiryTimes(k, i + 1)

earliestOf(allExpiryTimes) ==
    IF Len(allExpiryTimes) > 0
    THEN [hasExpiry |-> TRUE, expiry |-> earliest(allExpiryTimes).time]
    ELSE NoExpiry

getEarliestUidExpiry(k) == earliestOf(uidExpiryTimes(k, 1))

----------------------------------------------------------------------------
(* Selection of the encryption subkey *)

RECURSIVE encryptionSubkeys(_, _)
\* the filter loop of getMostRecentEncryptionSubkey over Subkeys[i..]
encryptionSubkeys(k, i) ==
    IF i > Len(k.Subkeys)
    THEN <<>>
    ELSE LET subkey == k.Subkeys[i]
             hasEncryptionFlag ==
                 subkey.FlagEncryptCommunications \/ subkey.FlagEncryptStorage
         IN  IF subkey.FlagsValid /\ hasEncryptionFlag
             THEN <<subkey>> \o encryptionSubkeys(k, i + 1)
             ELSE encryptionSubkeys(k, i + 1)

\* ByCreated.Less on the slice a
ByCreatedLess(a, i, j) == a[i].CreationTime < a[j].CreationTime

\* a variant without the reversal
ForwardLess(a, i, j) == ByCreatedLess(a, i, j)

\* sort.Reverse(ByCreated(a)).Less
ReverseLess(a, i, j) == ByCreatedLess(a, j, i)

Swap(a, i, j) == [a EXCEPT ![i] = a[j], ![j] = a[i]]

RECURSIVE sinkDown(_, _)
\* inner loop of the insertion sort sort.Sort runs on short slices
sinkDown(a, j) ==
    IF j > 1 /\ ReverseLess(a, j, j - 1)
    THEN sinkDown(Swap(a, j, j - 1), j - 1)
    ELSE a

RECURSIVE insertionSort(_, _)
insertionSort(a, i) ==
    IF i > Len(a) THEN a ELSE insertionSort(sinkDown(a, i), i + 1)

\* sort.Sort(sort.Reverse(ByCreated(subkeys)))
sortReverseByCreated(subkeys) == insertionSort(subkeys, 2)

\* returns <<>> for nil, <<subkey>> otherwise
mostRecentOf(subkeys) ==
    IF Len(subkeys) = 0
    THEN <<>>
    ELSE <<sortReverseByCreated(subkeys)[1]>>

getMostRecentEncryptionSubkey(k) == mostRecentOf(encryptionSubkeys(k, 1))

----------------------------------------------------------------------------
(* Warnings *)

KeyWarning(type) ==
    [Type |-> type, SubkeyId |-> 0, DaysUntilExpiry |-> 0, DaysSinceExpiry |-> 0]

Panic == [panicked |-> TRUE, warnings |-> <<>>]

Return(warnings) == [panicked |-> FALSE, warnings |-> warnings]

WithId(warning, subkeyId) == [warning EXCEPT !.SubkeyId = subkeyId]

\* the warning built from a day count that may have panicked
WithDaysUntil(warning, until) ==
    IF until.panicked
    THEN Panic
    ELSE Return(<<[warning EXCEPT !.DaysUntilExpiry = until.days]>>)

WithDaysSince(warning, since) ==
    IF since.panicked
    THEN Panic
    ELSE Return(<<[warning EXCEPT !.DaysSinceExpiry = since.days]>>)

\* a variant that makes the too-long check one more else branch
ThenUnlessWarned(first, more) ==
    IF first.panicked
    THEN Panic
    ELSE IF first.warnings = <<>> THEN Return(more) ELSE Return(first.warnings)

\* warnings appended after the rotation branch, unless that branch panicked
Then(first, more) ==
    IF first.panicked THEN Panic ELSE Return(first.warnings \o more)

\* a variant that names the expired subkey in the warning
subkeyRotationWarningsNamed(subkeyId, expiry, nextRotation, now) ==
    IF isExpired(expiry, now)
    THEN Return(<<WithId(KeyWarning("NoValidEncryptionSubkey"), subkeyId)>>)
    ELSE IF isOverdueForRotation(nextRotation, now)
    THEN WithDaysUntil(WithId(KeyWarning("SubkeyOverdueForRotation"), subkeyId),
                       getDaysUntilExpiry(nextRotation, now))
    ELSE IF isDueForRotation(nextRotation, now)
    THEN Return(<<WithId(KeyWarning("SubkeyDueForRotation"), subkeyId)>>)
    ELSE Return(<<>>)

\* the if / else-if chain of getEncryptionSubkeyWarnings
subkeyRotationWarnings(subkeyId, expiry, nextRotation, now) ==
    IF isExpired(expiry, now)
    THEN Return(<<KeyWarning("NoValidEncryptionSubkey")>>)
    ELSE IF isOverdueForRotation(nextRotation, now)
    THEN WithDaysUntil(WithId(KeyWarning("SubkeyOverdueForRotation"), subkeyId),
                       getDaysUntilExpiry(nextRotation, now))
    ELSE IF isDueForRotation(nextRotation, now)
    THEN Return(<<WithId(KeyWarning("SubkeyDueForRotation"), subkeyId)>>)
    ELSE Return(<<>>)

subkeyLongExpiryWarnings(subkeyId, expiry, now, l) ==
    IF isExpiryTooLong(expiry, now, l)
    THEN <<WithId(KeyWarning("SubkeyLongExpiry"), subkeyId)>>
    ELSE <<>>

\* getEncryptionSubkeyWarnings once the subkey and its expiry are known
subkeyWarningsFor(subkeyId, e, now, l) ==
    IF e.hasExpiry
    THEN Then(subkeyRotationWarnings(subkeyId, e.expiry,
                                     calculateNextRotationTime(e.expiry), now),
              subkeyLongExpiryWarnings(subkeyId, e.expiry, now, l))
    ELSE Return(<<WithId(KeyWarning("SubkeyNoExpiry"), subkeyId)>>)

subkeyWarningsOf(found, now, l) ==
    IF found = <<>>
    THEN Return(<<KeyWarning("NoValidEncryptionSubkey")>>)
    ELSE subkeyWarningsFor(found[1].KeyId, getSubkeyExpiry(found[1]), now, l)

getEncryptionSubkeyWarnings(k, now, l) ==
    subkeyWarningsOf(getMostRecentEncryptionSubkey(k), now, l)

\* the if / else-if chain of getPrimaryKeyWarnings
primaryRotationWarnings(expiry, nextRotation, now) ==
    IF isExpired(expiry, now)
    THEN WithDaysSince(KeyWarning("PrimaryKeyExpired"), getDaysSinceExpiry(expiry, now))
    ELSE IF isOverdueForRotation(nextRotation, now)
    THEN WithDaysUntil(KeyWarning("PrimaryKeyOverdueForRotation"),
                       getDaysUntilExpiry(expiry, now))
    ELSE IF isDueForRotation(nextRotation, now)
    THEN Return(<<KeyWarning("PrimaryKeyDueForRotation")>>)
    ELSE Return(<<>>)

primaryLongExpiryWarnings(expiry, now, l) ==
    IF isExpiryTooLong(expiry, now, l)
    THEN <<KeyWarning("PrimaryKeyLongExpiry")>>
    ELSE <<>>

\* getPrimaryKeyWarnings once the earliest expiry is known
primaryWarningsFor(e, now, l) ==
    IF e.hasExpiry
    THEN Then(primaryRotationWarnings(e.expiry, calculateNextRotationTime(e.expiry), now),
              primaryLongExpiryWarnings(e.expiry, now, l))
    ELSE Return(<<KeyWarning("PrimaryKeyNoExpiry")>>)

getPrimaryKeyWarnings(k, now, l) == primaryWarningsFor(getEarliestUidExpiry(k), now, l)

\* now1 and now2 are the two readings of time.Now(), one in each evaluator
\* a variant with the two appends in the other order
appendAllSubkeyFirst(primary, subkey) ==
    IF primary.panicked \/ subkey.panicked
    THEN Panic
    ELSE Return(subkey.warnings \o primary.warnings)

appendAll(primary, subkey) ==
    IF primary.panicked \/ subkey.panicked
    THEN Panic
    ELSE Return(primary.warnings \o subkey.warnings)

GetKeyWarnings(k, now1, now2, l) ==
    appendAll(getPrimaryKeyWarnings(k, now1, l), getEncryptionSubkeyWarnings(k, now2, l))

----------------------------------------------------------------------------
(* Inputs *)

MaxIds == 2

MaxSubkeys == 2

MaxTicks == 1

Day == SecondsPerDay

\* the instant y-m-d hh:00:00 UTC
At(y, m, d, hh) == DateAt(y, m, d, 0) + hh * 3600

SeqsUpTo(S, n) == UNION {[1..k -> S] : k \in 0..n}

\* how long before the first reading of the clock the keys were created
PrimaryAge == 400 * Day

Identity(lifetime) == [KeyLifetimeSecs |-> lifetime]

\* lifetimes that put an expiry at clock + d, for a key created `age` ago
Lifetimes(age, Deltas) == {<<age + d>> : d \in Deltas}

NoLifetimes == {<<>>, <<0>>}

Subkey(id, age, lifetime, valid, comms, storage) ==
    [KeyId |-> id, Age |-> age, KeyLifetimeSecs |-> lifetime, FlagsValid |-> valid,
     FlagEncryptCommunications |-> comms, FlagEncryptStorage |-> storage]

\* subkeys are drawn by age; their creation time is fixed once the clock is read
Born(sk, now) ==
    [KeyId |-> sk.KeyId, CreationTime |-> now - sk.Age,
     KeyLifetimeSecs |-> sk.KeyLifetimeSecs, FlagsValid |-> sk.FlagsValid,
     FlagEncryptCommunications |-> sk.FlagEncryptCommunications,
     FlagEncryptStorage |-> sk.FlagEncryptStorage]

MakeKey(now, lifetimes, subkeys) ==
    [CreationTime |-> now - PrimaryAge,
     Identities |-> [i \in 1..Len(lifetimes) |-> Identity(lifetimes[i])],
     Subkeys |-> [i \in 1..Len(subkeys) |-> Born(subkeys[i], now)]]

NoCall ==
    [op |-> "none", now |-> 0, now2 |-> 0, expiry |-> 0, panicked |-> FALSE,
     warnings |-> <<>>, days |-> 0, flag |-> FALSE]

\* the clock and its zone: the last hour of January in a zone five hours west of
\* UTC, and noon in the middle of March in UTC
NowLocs ==
    {[now |-> At(2024, 2, 1, 4), loc |-> -18000],
     [now |-> At(2024, 3, 15, 12), loc |-> 0]}

InitWith(nowlocs, lifetimeSet, subkeySet) ==
    \E nl \in nowlocs :
    \E lifetimes \in SeqsUpTo(lifetimeSet, MaxIds) :
    \E subkeys \in SeqsUpTo(subkeySet, MaxSubkeys) :
        /\ clock = nl.now
        /\ loc = nl.loc
        /\ key = MakeKey(nl.now, lifetimes, subkeys)
        /\ ticks = 0
        /\ call = NoCall

\* the combined keys: an identity without a lifetime or one expiring a second
\* under thirty days from now; an eligible subkey expiring then too, an
\* ineligible one, and an eligible one nineteen days from its expiry
SmallLifetimes == {<<>>} \cup Lifetimes(PrimaryAge, {30 * Day - 1})

SmallSubkeys ==
    {Subkey(1, 200 * Day, <<200 * Day + 30 * Day - 1>>, TRUE, TRUE, FALSE),
     Subkey(2, 100 * Day, <<>>, FALSE, TRUE, TRUE),
     Subkey(3, 300 * Day, <<300 * Day + 19 * Day>>, TRUE, FALSE, TRUE)}

\* keys with identities only: expiries on both sides of every threshold
PrimaryDeltas ==
    {-40 * Day, -1, 0, 5 * Day, 20 * Day, 30 * Day - 1, 30 * Day, 100 * Day}

PrimaryLifetimes == NoLifetimes \cup Lifetimes(PrimaryAge, PrimaryDeltas)

InitPrimary == InitWith(NowLocs, PrimaryLifetimes, {})

\* keys with subkeys only: eligible and ineligible ones, of three ages
SubkeyPool ==
    {Subkey(1, 200 * Day, <<200 * Day - 1>>, TRUE, TRUE, FALSE),
     Subkey(2, 400 * Day, <<400 * Day + 25 * Day>>, TRUE, FALSE, TRUE),
     Subkey(3, 100 * Day, <<100 * Day + 100 * Day>>, FALSE, TRUE, TRUE),
     Subkey(4, 100 * Day, <<>>, TRUE, FALSE, FALSE),
     Subkey(5, 200 * Day, <<200 * Day + 19 * Day>>, TRUE, TRUE, TRUE),
     Subkey(6, 400 * Day, <<0>>, TRUE, TRUE, FALSE),
     Subkey(7, 200 * Day, <<200 * Day + 30 * Day - 1>>, TRUE, FALSE, TRUE),
     Subkey(8, 400 * Day, <<400 * Day>>, TRUE, TRUE, FALSE)}

InitSubkey == InitWith(NowLocs, {}, SubkeyPool)

\* the policy on its own: the clock around the turn of a month, in UTC and in
\* zones west and east of it, and one identity and one subkey with the same
\* expiry, near the clock or near thirty days after the first of a month
MonthTurns ==
    {<<At(2023, 3, 1, 0), At(2023, 4, 1, 0)>>,
     <<At(2024, 1, 1, 0), At(2024, 2, 1, 0)>>,
     <<At(2024, 2, 1, 0), At(2024, 3, 1, 0)>>,
     <<At(2024, 3, 1, 0), At(2024, 4, 1, 0)>>,
     <<At(2024, 5, 1, 0), At(2024, 6, 1, 0)>>}

\* the turn of the month in the zone, a second before it, and the turn of the
\* month in UTC
TurnNowLocs(turn) ==
    UNION {{[now |-> turn - l - 1, loc |-> l], [now |-> turn - l, loc |-> l],
            [now |-> turn, loc |-> l], [now |-> turn - 1, loc |-> l]} :
           l \in {-18000, 0, 7200}}

PolicyDeltas == {-Day, -1, 0, 1, Day}

InitPolicy ==
    \E mt \in MonthTurns :
    \E nl \in TurnNowLocs(mt[1]) :
    \E expiry \in {nl.now + d : d \in PolicyDeltas}
                  \cup {mt[i] + thirtyDays + d : i \in {1, 2}, d \in {-1, 0, 1}} :
        /\ clock = nl.now
        /\ loc = nl.loc
        /\ key = MakeKey(nl.now, <<<<PrimaryAge + (expiry - nl.now)>>>>,
                         <<Subkey(1, PrimaryAge, <<PrimaryAge + (expiry - nl.now)>>,
                                  TRUE, TRUE, FALSE)>>)
        /\ ticks = 0
        /\ call = NoCall

Init == InitWith(NowLocs, SmallLifetimes, SmallSubkeys)

----------------------------------------------------------------------------
(* Operations *)

\* the expiries found on the key, and the rotation times computed from them
KeyExpiries ==
    {calculateExpiry(key.CreationTime, key.Identities[i].KeyLifetimeSecs).expiry :
        i \in {j \in 1..Len(key.Identities) :
                 calculateExpiry(key.CreationTime,
                                 key.Identities[j].KeyLifetimeSecs).hasExpiry}}
    \cup
    {getSubkeyExpiry(key.Subkeys[i]).expiry :
        i \in {j \in 1..Len(key.Subkeys) : getSubkeyExpiry(key.Subkeys[j]).hasExpiry}}

TimeArgs == KeyExpiries \cup {calculateNextRotationTime(e) : e \in KeyExpiries}

TickSteps == {1, Day}

\* time passes
Tick ==
    /\ ticks < MaxTicks
    /\ \E step \in TickSteps : clock' = clock + step
    /\ ticks' = ticks + 1
    /\ UNCHANGED <<key, loc, call>>

CallGetPrimaryKeyWarnings ==
    LET r == getPrimaryKeyWarnings(key, clock, loc)
    IN  /\ call' = [NoCall EXCEPT !.op = "getPrimaryKeyWarnings", !.now = clock,
                                  !.panicked = r.panicked, !.warnings = r.warnings]
        /\ UNCHANGED <<key, clock, loc, ticks>>

CallGetEncryptionSubkeyWarnings ==
    LET r == getEncryptionSubkeyWarnings(key, clock, loc)
    IN  /\ call' = [NoCall EXCEPT !.op = "getEncryptionSubkeyWarnings", !.now = clock,
                                  !.panicked = r.panicked, !.warnings = r.warnings]
        /\ UNCHANGED <<key, clock, loc, ticks>>

\* the clock may move between the two evaluators' readings of it
CallGetKeyWarnings ==
    \E step \in {0} \cup TickSteps :
        LET now2 == clock + step
            r == GetKeyWarnings(key, clock, now2, loc)
        IN  /\ step > 0 => ticks < MaxTicks
            /\ call' = [NoCall EXCEPT !.op = "GetKeyWarnings", !.now = clock,
                                      !.now2 = now2, !.panicked = r.panicked,
                                      !.warnings = r.warnings]
            /\ clock' = now2
            /\ ticks' = IF step > 0 THEN ticks + 1 ELSE ticks
            /\ UNCHANGED <<key, loc>>

CallGetDaysUntilExpiry ==
    \E expiry \in TimeArgs :
        LET r == getDaysUntilExpiry(expiry, clock)
        IN  /\ call' = [NoCall EXCEPT !.op = "getDaysUntilExpiry", !.now = clock,
                                      !.expiry = expiry, !.panicked = r.panicked,
                                      !.days = r.days]
            /\ UNCHANGED <<key, clock, loc, ticks>>

CallGetDaysSinceExpiry ==
    \E expiry \in TimeArgs :
        LET r == getDaysSinceExpiry(expiry, clock)
        IN  /\ call' = [NoCall EXCEPT !.op = "getDaysSinceExpiry", !.now = clock,
                                      !.expiry = expiry, !.panicked = r.panicked,
                                      !.days = r.days]
            /\ UNCHANGED <<key, clock, loc, ticks>>

CallIsExpiryTooLong ==
    \E expiry \in KeyExpiries :
        /\ call' = [NoCall EXCEPT !.op = "isExpiryTooLong", !.now = clock,
                                  !.expiry = expiry,
                                  !.flag = isExpiryTooLong(expiry, clock, loc)]
        /\ UNCHANGED <<key, clock, loc, ticks>>

Next ==
    \/ Tick
    \/ CallGetKeyWarnings
    \/ CallGetPrimaryKeyWarnings
    \/ CallGetEncryptionSubkeyWarnings
    \/ CallGetDaysUntilExpiry
    \/ CallGetDaysSinceExpiry
    \/ CallIsExpiryTooLong

Spec == Init /\ [][Next]_vars

SpecPrimary == InitPrimary /\ [][Next]_vars

SpecSubkey == InitSubkey /\ [][Next]_vars

SpecPolicy == InitPolicy /\ [][Next]_vars

----------------------------------------------------------------------------
(* What the properties speak of *)

Types(warnings) == {warnings[i].Type : i \in 1..Len(warnings)}

IsRotationState(w) ==
    w.Type \in {"PrimaryKeyExpired", "PrimaryKeyOverdueForRotation",
                "PrimaryKeyDueForRotation", "NoValidEncryptionSubkey",
                "SubkeyOverdueForRotation", "SubkeyDueForRotation"}

RotationStates(warnings) == SelectSeq(warnings, IsRotationState)

Expires(lifetime) == lifetime # <<>> /\ lifetime[1] # 0

\* the identities of k that resolve to an expiry, and those expiries
ExpiringIds(k) ==
    {i \in 1..Len(k.Identities) : Expires(k.Identities[i].KeyLifetimeSecs)}

IdExpiries(k) ==
    {k.CreationTime + k.Identities[i].KeyLifetimeSecs[1] : i \in ExpiringIds(k)}

Min(S) == CHOOSE x \in S : \A y \in S : x <= y

Eligible(sk) ==
    sk.FlagsValid /\ (sk.FlagEncryptCommunications \/ sk.FlagEncryptStorage)

EligibleSubkeys(k) == {k.Subkeys[i] : i \in {j \in 1..Len(k.Subkeys) : Eligible(k.Subkeys[j])}}

\* the eligible subkeys no other eligible subkey was created after
Latest(k) ==
    {sk \in EligibleSubkeys(k) :
        \A other \in EligibleSubkeys(k) : other.CreationTime <= sk.CreationTime}

SubkeyExpires(sk) == Expires(sk.KeyLifetimeSecs)

SubkeyExpiry(sk) == sk.CreationTime + sk.KeyLifetimeSecs[1]

----------------------------------------------------------------------------
(* C1 *)

\* C1: when the selected encryption subkey has not expired (expiry >= now) but
\* its rotation time (expiry - 30 days) lies more than 10 days before now, the
\* subkey evaluator returns, without panicking, a SubkeyOverdueForRotation
\* warning that carries the subkey's identifier.
C1_OverdueSubkeyIsReported ==
    (/\ call.op = "getEncryptionSubkeyWarnings"
     /\ Latest(key) # {}
     /\ \A sk \in Latest(key) :
            /\ SubkeyExpires(sk)
            /\ SubkeyExpiry(sk) >= call.now
            /\ SubkeyExpiry(sk) - 30 * Day + 10 * Day < call.now)
    => /\ ~call.panicked
       /\ \E sk \in Latest(key) : \E i \in 1..Len(call.warnings) :
            /\ call.warnings[i].Type = "SubkeyOverdueForRotation"
            /\ call.warnings[i].SubkeyId = sk.KeyId

----------------------------------------------------------------------------
(* C2 *)

\* the rotation-state warning the policy prescribes for earliest expiry E at now
PrescribedPrimary(E, now) ==
    IF E < now
    THEN <<[KeyWarning("PrimaryKeyExpired") EXCEPT
               !.DaysSinceExpiry = (now - E) \div Day]>>
    ELSE IF E - 30 * Day + 10 * Day < now
    THEN <<[KeyWarning("PrimaryKeyOverdueForRotation") EXCEPT
               !.DaysUntilExpiry = (E - now) \div Day]>>
    ELSE IF E - 30 * Day < now
    THEN <<KeyWarning("PrimaryKeyDueForRotation")>>
    ELSE <<>>

\* C2: for a key with an identity that resolves to an expiry, the primary-key
\* evaluator returns and emits at most one rotation-state warning, the one the
\* precedence expired, overdue, due prescribes for the earliest expiry E, with
\* the day counts in whole days; an expiry 40 days back gives DaysSinceExpiry 40.
C2_PrimaryRotationPrecedence ==
    (call.op = "getPrimaryKeyWarnings" /\ IdExpiries(key) # {})
    => /\ ~call.panicked
       /\ Len(RotationStates(call.warnings)) <= 1
       /\ RotationStates(call.warnings) = PrescribedPrimary(Min(IdExpiries(key)), call.now)
       /\ Min(IdExpiries(key)) = call.now - 40 * Day
          => call.warnings[1].DaysSinceExpiry = 40

C2_Witness ==
    /\ call.op = "getPrimaryKeyWarnings"
    /\ Len(key.Identities) = 1
    /\ IdExpiries(key) = {call.now - 40 * Day}
    /\ call.warnings = <<[KeyWarning("PrimaryKeyExpired") EXCEPT !.DaysSinceExpiry = 40]>>

----------------------------------------------------------------------------
(* C3 *)

\* C3, as claimed: if any identity has no expiry, the primary-key evaluator
\* emits PrimaryKeyNoExpiry and nothing else, whatever the other identities carry.
C3_AnyIdentityWithoutExpiry ==
    (/\ call.op = "getPrimaryKeyWarnings"
     /\ \E i \in 1..Len(key.Identities) : ~Expires(key.Identities[i].KeyLifetimeSecs))
    => call.warnings = <<KeyWarning("PrimaryKeyNoExpiry")>>

\* C3, amended: the primary-key evaluator emits PrimaryKeyNoExpiry, and then
\* nothing else, exactly when no identity resolves to an expiry; an identity
\* without an expiry beside one that has an expiry is passed over, and the
\* rotation state of the earliest expiry is reported.
C3_NoExpiryOnlyWhenNoIdentityExpires ==
    call.op = "getPrimaryKeyWarnings"
    => /\ ~call.panicked
       /\ IdExpiries(key) = {} => call.warnings = <<KeyWarning("PrimaryKeyNoExpiry")>>
       /\ IdExpiries(key) # {}
          => /\ "PrimaryKeyNoExpiry" \notin Types(call.warnings)
             /\ RotationStates(call.warnings)
                = PrescribedPrimary(Min(IdExpiries(key)), call.now)

C3_Witness ==
    /\ call.op = "getPrimaryKeyWarnings"
    /\ \E i \in 1..Len(key.Identities) : ~Expires(key.Identities[i].KeyLifetimeSecs)
    /\ ExpiringIds(key) # {}
    /\ "PrimaryKeyExpired" \in Types(call.warnings)
    /\ "PrimaryKeyNoExpiry" \notin Types(call.warnings)

----------------------------------------------------------------------------
(* C4 *)

\* k with its identities replaced by a single one that expires at E
WithSoleExpiry(k, E) ==
    [k EXCEPT !.Identities = <<Identity(<<E - k.CreationTime>>)>>]

\* C4: with two or more identities that resolve to an expiry, the primary-key
\* evaluator's outcome is the one it gives for a key whose single identity
\* expires at the minimum of those expiries.
C4_EarliestIdentityDecides ==
    (call.op = "getPrimaryKeyWarnings" /\ Cardinality(ExpiringIds(key)) >= 2)
    => LET sole == getPrimaryKeyWarnings(WithSoleExpiry(key, Min(IdExpiries(key))),
                                         call.now, loc)
       IN  /\ call.panicked = sole.panicked
           /\ call.warnings = sole.warnings

C4_Witness ==
    /\ call.op = "getPrimaryKeyWarnings"
    /\ Len(key.Identities) = 2
    /\ ExpiringIds(key) = {1, 2}
    /\ key.CreationTime + key.Identities[1].KeyLifetimeSecs[1] = call.now + 100 * Day
    /\ key.CreationTime + key.Identities[2].KeyLifetimeSecs[1] = call.now + 5 * Day
    /\ call.warnings = <<[KeyWarning("PrimaryKeyOverdueForRotation") EXCEPT
                            !.DaysUntilExpiry = 5]>>

----------------------------------------------------------------------------
(* C5 *)

\* C5: for an expiry other than now, exactly one of the two day counts is
\* valid: getDaysUntilExpiry panics whenever the expiry is before now, and
\* getDaysSinceExpiry panics whenever it is after now, by however little.
C5_ExactlyOneDayCountIsValid ==
    /\ (call.op = "getDaysUntilExpiry" /\ call.expiry # call.now)
       => (call.panicked <=> call.expiry < call.now)
    /\ (call.op = "getDaysSinceExpiry" /\ call.expiry # call.now)
       => (call.panicked <=> call.expiry > call.now)

----------------------------------------------------------------------------
(* C6 *)

\* 00:00 UTC on the first day of the month after the month `now` lies in,
\* read in the zone of `now`
StartOfFollowingMonth(now, l) ==
    IF Date(now, l).month = 12
    THEN DateAt(Date(now, l).year + 1, 1, 1, 0)
    ELSE DateAt(Date(now, l).year, Date(now, l).month + 1, 1, 0)

LatestAcceptable(now, l) == StartOfFollowingMonth(now, l) + 30 * Day

\* C6: isExpiryTooLong(expiry, now) holds exactly when expiry is strictly after
\* latestAcceptable(now), the first of the following month at 00:00 UTC plus 30
\* days; and each evaluator emits its LongExpiry warning for an expiry exactly
\* when that expiry is strictly after latestAcceptable(now).
C6_TooLongIsStrictlyAfterCeiling ==
    /\ call.op = "isExpiryTooLong"
       => (call.flag <=> call.expiry > LatestAcceptable(call.now, loc))
    /\ (call.op = "getPrimaryKeyWarnings" /\ Cardinality(IdExpiries(key)) = 1)
       => ("PrimaryKeyLongExpiry" \in Types(call.warnings)
           <=> Min(IdExpiries(key)) > LatestAcceptable(call.now, loc))
    /\ (/\ call.op = "getEncryptionSubkeyWarnings"
        /\ ~call.panicked
        /\ Cardinality(Latest(key)) = 1
        /\ \A sk \in Latest(key) : SubkeyExpires(sk))
       => \A sk \in Latest(key) :
            "SubkeyLongExpiry" \in Types(call.warnings)
            <=> SubkeyExpiry(sk) > LatestAcceptable(call.now, loc)

C6_Witness ==
    /\ call.op = "isExpiryTooLong"
    /\ Date(call.now, loc).month = 12
    /\ call.expiry = LatestAcceptable(call.now, loc)
    /\ ~call.flag

----------------------------------------------------------------------------
(* C7 *)

\* C7: GetKeyWarnings returns the primary-key evaluator's warnings followed by
\* the subkey evaluator's warnings, nothing dropped or reordered (and fails
\* when one of them fails); a key without identities and without subkeys gives
\* exactly PrimaryKeyNoExpiry, NoValidEncryptionSubkey.
C7_PrimaryThenSubkey ==
    call.op = "GetKeyWarnings"
    => /\ call.panicked
          <=> \/ getPrimaryKeyWarnings(key, call.now, loc).panicked
              \/ getEncryptionSubkeyWarnings(key, call.now2, loc).panicked
       /\ ~call.panicked
          => call.warnings
             = getPrimaryKeyWarnings(key, call.now, loc).warnings
               \o getEncryptionSubkeyWarnings(key, call.now2, loc).warnings
       /\ (key.Identities = <<>> /\ key.Subkeys = <<>>)
          => /\ ~call.panicked
             /\ call.warnings = <<KeyWarning("PrimaryKeyNoExpiry"),
                                  KeyWarning("NoValidEncryptionSubkey")>>

C7_Witness ==
    /\ call.op = "GetKeyWarnings"
    /\ key.Identities = <<>>
    /\ key.Subkeys = <<>>
    /\ call.warnings = <<KeyWarning("PrimaryKeyNoExpiry"),
                         KeyWarning("NoValidEncryptionSubkey")>>

----------------------------------------------------------------------------
(* C8 *)

WithSoleSubkey(k, sk) == [k EXCEPT !.Subkeys = <<sk>>]

\* C8: when one eligible subkey was created after every other eligible subkey,
\* the subkey evaluator's outcome is the one it gives for a key that holds that
\* subkey alone: ineligible subkeys and eligible ones created earlier, whatever
\* their expiry, change nothing.
C8_OnlyTheLatestEligibleSubkeyCounts ==
    (call.op = "getEncryptionSubkeyWarnings" /\ Cardinality(Latest(key)) = 1)
    => \A sk \in Latest(key) :
          /\ call.panicked
             = getEncryptionSubkeyWarnings(WithSoleSubkey(key, sk), call.now, loc).panicked
          /\ call.warnings
             = getEncryptionSubkeyWarnings(WithSoleSubkey(key, sk), call.now, loc).warnings

C8_Witness ==
    /\ call.op = "getEncryptionSubkeyWarnings"
    /\ Len(key.Subkeys) = 2
    /\ Eligible(key.Subkeys[1]) /\ Eligible(key.Subkeys[2])
    /\ key.Subkeys[1].CreationTime < key.Subkeys[2].CreationTime
    /\ SubkeyExpires(key.Subkeys[1]) /\ SubkeyExpires(key.Subkeys[2])
    /\ SubkeyExpiry(key.Subkeys[1]) > call.now
    /\ SubkeyExpiry(key.Subkeys[2]) < call.now
    /\ call.warnings = <<KeyWarning("NoValidEncryptionSubkey")>>

----------------------------------------------------------------------------
(* C9 *)

IsLongExpiry(w) == w.Type \in {"PrimaryKeyLongExpiry", "SubkeyLongExpiry"}

\* a rotation-state warning and a too-long warning in one result
RotationStateAndLong(warnings) ==
    /\ \E i \in 1..Len(warnings) : IsRotationState(warnings[i])
    /\ \E i \in 1..Len(warnings) : IsLongExpiry(warnings[i])

\* C9: an evaluator emits a rotation-state warning together with its LongExpiry
\* warning, for the same expiry, exactly when that expiry is past the
\* acceptable ceiling and less than 30 days ahead of now, and its result is
\* then the due warning followed by the too-long warning; there are a key and
\* a now for which each evaluator does so.
C9_RotationStateWithLongExpiry ==
    /\ (call.op = "getPrimaryKeyWarnings" /\ IdExpiries(key) # {})
       => /\ RotationStateAndLong(call.warnings)
             <=> /\ Min(IdExpiries(key)) > LatestAcceptable(call.now, loc)
                 /\ Min(IdExpiries(key)) - 30 * Day < call.now
          /\ RotationStateAndLong(call.warnings)
             => call.warnings = <<KeyWarning("PrimaryKeyDueForRotation"),
                                  KeyWarning("PrimaryKeyLongExpiry")>>
    /\ (/\ call.op = "getEncryptionSubkeyWarnings"
        /\ ~call.panicked
        /\ Cardinality(Latest(key)) = 1
        /\ \A sk \in Latest(key) : SubkeyExpires(sk))
       => \A sk \in Latest(key) :
            /\ RotationStateAndLong(call.warnings)
               <=> /\ SubkeyExpiry(sk) > LatestAcceptable(call.now, loc)
                   /\ SubkeyExpiry(sk) - 30 * Day < call.now
            /\ RotationStateAndLong(call.warnings)
               => call.warnings
                  = <<WithId(KeyWarning("SubkeyDueForRotation"), sk.KeyId),
                      WithId(KeyWarning("SubkeyLongExpiry"), sk.KeyId)>>

\* both evaluators, in one evaluation of a key
C9_Witness ==
    /\ call.op = "GetKeyWarnings"
    /\ Len(call.warnings) = 4
    /\ call.warnings[1].Type = "PrimaryKeyDueForRotation"
    /\ call.warnings[2].Type = "PrimaryKeyLongExpiry"
    /\ call.warnings[3].Type = "SubkeyDueForRotation"
    /\ call.warnings[4].Type = "SubkeyLongExpiry"
    /\ call.warnings[3].SubkeyId = call.warnings[4].SubkeyId

----------------------------------------------------------------------------
(* C10 *)

\* C10: when the key has no eligible encryption subkey, or its most recently
\* created eligible subkey expired strictly before now, the subkey evaluator
\* returns, without panicking, the single warning NoValidEncryptionSubkey,
\* which carries no subkey identifier.
C10_NoValidEncryptionSubkeyAlone ==
    (/\ call.op = "getEncryptionSubkeyWarnings"
     /\ \A sk \in Latest(key) : SubkeyExpires(sk) /\ SubkeyExpiry(sk) < call.now)
    => /\ ~call.panicked
       /\ call.warnings = <<KeyWarning("NoValidEncryptionSubkey")>>
       /\ call.warnings[1].SubkeyId = 0

C10_Witness ==
    /\ call.op = "getEncryptionSubkeyWarnings"
    /\ Latest(key) # {}
    /\ \A sk \in Latest(key) : SubkeyExpires(sk) /\ SubkeyExpiry(sk) < call.now
    /\ \E i \in 1..Len(key.Subkeys) : ~Eligible(key.Subkeys[i])
    /\ call.warnings = <<KeyWarning("NoValidEncryptionSubkey")>>

----------------------------------------------------------------------------
(* C11 *)

SameMonth(t, u, l) ==
    /\ Date(t, l).year = Date(u, l).year
    /\ Date(t, l).month = Date(u, l).month

\* how far back an earlier reading of the clock may lie
Elapsed == {0, 1, 2, Day, Day + 1, 2 * Day}

\* the first reading of the clock: the primary key was created PrimaryAge before
FirstClock == key.CreationTime + PrimaryAge

\* an expiry set to the ceiling of an earlier time t0 is not too long at call.now
CeilingStaysAcceptable ==
    call.op = "isExpiryTooLong"
    => \A d \in Elapsed :
          call.expiry = nextExpiryTime(call.now - d, loc) => ~call.flag

\* as the clock moves the ceiling does not decrease, and it stays the same
\* while the clock stays in one calendar month
CeilingStep ==
    /\ clock' >= clock
    /\ nextExpiryTime(clock', loc) >= nextExpiryTime(clock, loc)
    /\ SameMonth(clock, clock', loc)
       => nextExpiryTime(clock', loc) = nextExpiryTime(clock, loc)

\* C11: nextExpiryTime(now) is the same instant for every now within one
\* calendar month and never decreases as now advances, so an expiry set to
\* exactly nextExpiryTime(t0) is not flagged by isExpiryTooLong at t0 or at any
\* later time.
C11_CeilingNeverShrinks == [][CeilingStep]_vars /\ []CeilingStaysAcceptable

\* the clock has passed into the next month since the expiry was set to the
\* ceiling, and the expiry is not flagged
C11_Witness ==
    /\ call.op = "isExpiryTooLong"
    /\ FirstClock < call.now
    /\ ~SameMonth(FirstClock, call.now, loc)
    /\ call.expiry = nextExpiryTime(FirstClock, loc)
    /\ nextExpiryTime(call.now, loc) > call.expiry
    /\ ~call.flag

====
